---- MODULE Spec2Model ----
(***************************************************************************)
(* The batching proxy of proxy.py: the ingress handler proxy_classify, the *)
(* control endpoint change, and the single dispatcher task _dispatcher     *)
(* with its three strategies (sjf, fair, fcfs), as a state machine.  One   *)
(* step of the model is one run of a coroutine between two suspension      *)
(* points of the asyncio event loop (the loop is single threaded, and the  *)
(* queue lock is only ever held between two suspension points, so it is    *)
(* never contended).                                                       *)
(*                                                                         *)
(* A string is modelled by its length (the proxy reads nothing else of     *)
(* it).  The labels of a downstream response are modelled by distinct      *)
(* tokens, the label at flat index j (from 1) being the number j: the      *)
(* dispatcher never inspects a label, so what it does with distinct labels *)
(* it does with any.                                                       *)
(***************************************************************************)
EXTENDS Integers, Sequences, FiniteSets, TLC

\* ------------------------------------------------------------------ config
MAX_BATCH == 5

\* Bounds of the model: the items that stand in the queues when the dispatcher
\* starts on a loaded proxy (QueuedSpec), and the items alive at once while
\* clients come and go (Spec).
MaxItems == 3
MaxLive == 2

Strategies == {"sjf", "fair", "fcfs"}

\* Values of the new_strategy parameter the clients send: the three members
\* of the enum, and the value test_proxy.py sends that is none of them.
StrategyValues == Strategies \cup {"invalid"}

\* Values of the X-Customer-Id header the clients send.
Headers == {"A", "b", "x"}

\* str.upper() on the header values.
Upper(h) ==
    CASE h = "b" -> "B"
      [] h = "x" -> "X"
      [] OTHER -> h

\* A request body of n strings, the first of length m, the others of length 1.
Body(n, m) == [k \in 1 .. n |-> IF k = 1 THEN m ELSE 1]

\* The clients are those of simulate_clients.py: customer A sends short
\* snippets, the others a long block.  No selection reads both an item's
\* customer and its maxlen, so tying the two loses no batch.
StrLen(h) == IF Upper(h) = "A" THEN 1 ELSE 2

\* What the clients of simulate_clients.py send while the proxy runs: bodies
\* of 2 or 3 strings under every header.
Requests ==
    {[header |-> h, shape |-> "ok", sequences |-> Body(n, StrLen(h))] :
        h \in Headers, n \in {2, 3}}

\* The requests test_proxy.py sends to be turned away, all under the header
\* "A": the two bodies out of bounds (0 and 6 strings), and a body that is
\* no list of strings (shape "bad": a missing field, a string for the list).
BadRequests ==
    {[header |-> "A", shape |-> "ok", sequences |-> Body(n, 1)] :
        n \in {0, MAX_BATCH + 1}}
    \cup {[header |-> "A", shape |-> "bad", sequences |-> <<>>]}

Ids == 1 .. MaxItems

VARIABLES
    strategy,         \* the strategy register
    fifo_q,           \* queue of item ids (sjf, fcfs)
    q_a,              \* queue of item ids, customer A (fair)
    q_b,              \* queue of item ids, the other customers (fair)
    last_turn,        \* "A" or "B"
    items,            \* id -> the _Item with that id and its handler, or NoItem
    pc,               \* where the dispatcher is suspended
    batch,            \* the dispatcher's local batch
    total_sequences,  \* the dispatcher's local total_sequences
    reply,            \* the endpoint and the error status the step turned
                      \* a request away with, NoReply when it turned none away
    q_lock            \* q_lock.locked()

vars == <<strategy, fifo_q, q_a, q_b, last_turn, items, pc, batch,
          total_sequences, reply, q_lock>>

\* The step turned no request away.
NoReply == [path |-> "", status |-> "none"]

\* ------------------------------------------------------------- queue item
\* An id that names no live _Item.
NoItem == [cid |-> "", seqs |-> <<>>, maxlen |-> 0, fut |-> "none",
           res |-> <<>>, handler |-> "none"]

RECURSIVE MaxOf(_)
MaxOf(s) ==
    IF Len(s) = 1 THEN s[1]
    ELSE LET m == MaxOf(Tail(s)) IN IF s[1] > m THEN s[1] ELSE m

\* _Item.__init__: the future is pending.  handler is the proxy_classify call
\* that made the item: awaiting the future, answered "200" or "500", or "gone"
\* (cancelled).
NewItem(cid, seqs) ==
    [cid |-> cid, seqs |-> seqs, maxlen |-> MaxOf(seqs), fut |-> "pending",
     res |-> <<>>, handler |-> "awaiting"]

\* Mutant of Lt: <= for <, which turns the order of equal items around.
LtOrEqual(a, b) == items[a].maxlen <= items[b].maxlen

\* _Item.__lt__
Lt(a, b) == items[a].maxlen < items[b].maxlen

\* Mutant of Size: the room of a batch is counted in requests.
SizeOne(i) == 1

\* len(item.seqs)
Size(i) == Len(items[i].seqs)

\* Mutant of Done: a cancelled future does not count as done.
DoneResolved(it) == it.fut \in {"result", "exception"}

\* asyncio.Future.done(): a result, an exception or a cancellation.
Done(it) == it.fut \in {"result", "exception", "cancelled"}

Range(s) == {s[k] : k \in 1 .. Len(s)}

Referenced == Range(fifo_q) \cup Range(q_a) \cup Range(q_b) \cup Range(batch)

\* An _Item is garbage once no handler awaits it and no queue or batch holds it.
Collect(its, held) ==
    [i \in Ids |->
        IF its[i].handler # "awaiting" /\ i \notin held THEN NoItem ELSE its[i]]

TypeOK ==
    /\ strategy \in Strategies
    /\ last_turn \in {"A", "B"}
    /\ pc \in {"top", "idle", "fcfs_wait", "call", "crashed", "stopped"}
    /\ Referenced \subseteq Ids
    /\ reply \in {NoReply, [path |-> "/proxy_classify", status |-> "400"],
                  [path |-> "/proxy_classify", status |-> "422"],
                  [path |-> "/strategy", status |-> "422"]}
    /\ q_lock \in BOOLEAN

Init ==
    /\ strategy \in Strategies
    /\ fifo_q = <<>>
    /\ q_a = <<>>
    /\ q_b = <<>>
    /\ last_turn = "B"
    /\ items = [i \in Ids |-> NoItem]
    /\ pc = "top"
    /\ batch = <<>>
    /\ total_sequences = 0
    /\ reply = NoReply
    /\ q_lock = FALSE

\* ----------------------------------------------------------------- ingress
\* The shutdown handler has not run: the server takes requests, and none
\* after.
Serving == pc # "stopped"

FreeIds == {i \in Ids : items[i] = NoItem}

\* uuid4(): an id no live item has (the least one: ids are only compared).
FreshId == CHOOSE i \in FreeIds : \A j \in FreeIds : i <= j

\* The request is answered with an error status before it touches the
\* proxy's state: by FastAPI when a parameter or the body does not validate
\* (422), by the HTTPException of the handler (400).
Reject(path, status) ==
    /\ reply' = [path |-> path, status |-> status]
    /\ UNCHANGED <<strategy, fifo_q, q_a, q_b, last_turn, items, pc, batch,
                   total_sequences, q_lock>>

\* Mutant of InBounds: the upper bound is not tested.
InBoundsBelow(body) == 1 <= Len(body)

\* The bounds check of proxy_classify.
InBounds(body) == 1 <= Len(body) /\ Len(body) <= MAX_BATCH

\* Mutant of Enqueue: appendleft() for append(), the new item at the head.
EnqueueFront(h, body) ==
    IF ~InBounds(body)
    THEN Reject("/proxy_classify", "400")
    ELSE /\ FreeIds # {}
         /\ ~q_lock
         /\ q_lock' = FALSE
         /\ reply' = NoReply
         /\ LET id == FreshId
                itm == NewItem(Upper(h), body)
            IN /\ items' = [items EXCEPT ![id] = itm]
               /\ IF strategy = "fair"
                  THEN IF itm.cid = "A"
                       THEN /\ q_a' = <<id>> \o q_a
                            /\ UNCHANGED <<q_b, fifo_q>>
                       ELSE /\ q_b' = <<id>> \o q_b
                            /\ UNCHANGED <<q_a, fifo_q>>
                  ELSE /\ fifo_q' = <<id>> \o fifo_q
                       /\ UNCHANGED <<q_a, q_b>>
         /\ UNCHANGED <<strategy, last_turn, pc, batch, total_sequences>>

\* proxy_classify, to the await of the future: the bounds check (400, and
\* nothing changes), the item, the enqueue under the strategy read in the
\* critical section.  The handler goes through async with q_lock without
\* suspending when the lock is free, and has left the block when it awaits
\* the future; it waits for a lock that is held.
Enqueue(h, body) ==
    IF ~InBounds(body)
    THEN Reject("/proxy_classify", "400")
    ELSE /\ FreeIds # {}
         /\ ~q_lock
         /\ q_lock' = FALSE
         /\ reply' = NoReply
         /\ LET id == FreshId
                itm == NewItem(Upper(h), body)
            IN /\ items' = [items EXCEPT ![id] = itm]
               /\ IF strategy = "fair"
                  THEN IF itm.cid = "A"
                       THEN /\ q_a' = Append(q_a, id)
                            /\ UNCHANGED <<q_b, fifo_q>>
                       ELSE /\ q_b' = Append(q_b, id)
                            /\ UNCHANGED <<q_a, fifo_q>>
                  ELSE /\ fifo_q' = Append(fifo_q, id)
                       /\ UNCHANGED <<q_a, q_b>>
         /\ UNCHANGED <<strategy, last_turn, pc, batch, total_sequences>>

\* A client posts one of reqs to /proxy_classify.  A body that is no _Req
\* does not reach the handler.
Post(reqs) ==
    /\ Serving
    /\ Cardinality(Ids \ FreeIds) < MaxLive
    /\ \E r \in reqs :
          IF r.shape = "ok" THEN Enqueue(r.header, r.sequences)
          ELSE Reject("/proxy_classify", "422")

Submit == Post(Requests)

SubmitAny == Post(Requests \cup BadRequests)

\* proxy_classify, from the await of the future on: 200 with the results, or
\* 500 when the future holds an exception.  A handler a future wakes runs
\* before the dispatcher's next step: the event loop runs what is ready in
\* order, and the dispatcher's sleep(0) queues it behind the handlers its
\* set_result and set_exception have woken.
Answer(it) ==
    IF it.handler = "awaiting" /\ it.fut = "result"
    THEN [it EXCEPT !.handler = "200"]
    ELSE IF it.handler = "awaiting" /\ it.fut = "exception"
         THEN [it EXCEPT !.handler = "500"]
         ELSE it

\* The handler's task is cancelled while it awaits the future (the client
\* went away): awaiting a future from a cancelled task cancels the future.
CancelWaiter(i) ==
    /\ Serving
    /\ items[i].handler = "awaiting"
    /\ items[i].fut = "pending"
    /\ items' = Collect([items EXCEPT ![i].handler = "gone",
                                      ![i].fut = "cancelled"], Referenced)
    /\ UNCHANGED <<strategy, fifo_q, q_a, q_b, last_turn, pc, batch,
                   total_sequences, q_lock>>
    /\ reply' = NoReply

Cancel == \E i \in Ids : CancelWaiter(i)

\* Mutant of Change: the switch starts the fair turns afresh.
ChangeResetTurn(new_strategy) ==
    /\ strategy' = new_strategy
    /\ last_turn' = "B"
    /\ reply' = NoReply
    /\ UNCHANGED <<fifo_q, q_a, q_b, items, pc, batch, total_sequences,
                   q_lock>>

\* Mutant of Change: the register is set back to the default.
ChangeDefault(new_strategy) ==
    /\ strategy' = "sjf"
    /\ reply' = NoReply
    /\ UNCHANGED <<fifo_q, q_a, q_b, last_turn, items, pc, batch,
                   total_sequences, q_lock>>

\* change: the response reports strategy.value as the assignment left it.
Change(new_strategy) ==
    /\ strategy' = new_strategy
    /\ reply' = NoReply
    /\ UNCHANGED <<fifo_q, q_a, q_b, last_turn, items, pc, batch,
                   total_sequences, q_lock>>

\* Mutant of IsStrategy: the parameter is taken as a plain string.
IsString(v) == TRUE

\* The parameter of change is declared a _Strategy: a value that is no
\* member of the enum does not reach the handler.
IsStrategy(v) == v \in Strategies

\* A client posts one of values to /strategy.
PostStrategy(values) ==
    /\ Serving
    /\ \E v \in values : IF IsStrategy(v) THEN Change(v)
                        ELSE Reject("/strategy", "422")

Switch == PostStrategy(Strategies)

SwitchAny == PostStrategy(StrategyValues)

\* _stop: the dispatcher task is cancelled where it is suspended (the
\* CancelledError is no Exception: the except branch around the post does not
\* see it), and nothing else is touched.
Stop ==
    /\ pc \notin {"stopped", "crashed"}
    /\ pc' = "stopped"
    /\ UNCHANGED <<strategy, fifo_q, q_a, q_b, last_turn, items, batch,
                   total_sequences, q_lock>>
    /\ reply' = NoReply

\* -------------------------------------------------------------- dispatcher
RECURSIVE SumSize(_)
SumSize(b) == IF b = <<>> THEN 0 ELSE Size(Head(b)) + SumSize(Tail(b))

\* Mutant of Fits: the test leaves out the item it is about to admit.
FitsLoose(total, i) == total <= MAX_BATCH

\* The capacity test of every admission loop.
Fits(total, i) == total + Size(i) <= MAX_BATCH

\* sorted(fifo_q): a stable sort that compares with __lt__ only.  x stood
\* before every element of s in the queue.
RECURSIVE InsertSorted(_, _)
InsertSorted(x, s) ==
    IF s = <<>> \/ ~Lt(s[1], x) THEN <<x>> \o s
    ELSE <<s[1]>> \o InsertSorted(x, Tail(s))

RECURSIVE Sorted(_)
Sorted(q) ==
    IF q = <<>> THEN <<>> ELSE InsertSorted(Head(q), Sorted(Tail(q)))

\* The sjf loop over sorted_items: admit while the item fits, stop at the
\* first that does not.
RECURSIVE SjfAdmit(_, _)
SjfAdmit(s, total) ==
    IF s = <<>> THEN <<>>
    ELSE IF Fits(total, Head(s))
         THEN <<Head(s)>> \o SjfAdmit(Tail(s), total + Size(Head(s)))
         ELSE <<>>

\* Mutant of DrainHead: pop() for popleft(), the newest item first.
RECURSIVE DrainTail(_, _)
DrainTail(q, total) ==
    IF q = <<>> THEN <<>>
    ELSE LET l == q[Len(q)]
         IN IF total + Size(l) <= MAX_BATCH
            THEN <<l>> \o DrainTail(SubSeq(q, 1, Len(q) - 1), total + Size(l))
            ELSE <<>>

\* Mutant of DrainHead: a head that does not fit is passed over for the items
\* behind it.
RECURSIVE DrainFitting(_, _)
DrainFitting(q, total) ==
    IF q = <<>> THEN <<>>
    ELSE IF total + Size(Head(q)) <= MAX_BATCH
         THEN <<Head(q)>> \o DrainFitting(Tail(q), total + Size(Head(q)))
         ELSE DrainFitting(Tail(q), total)

\* while q and total + len(q[0].seqs) <= MAX_BATCH: q.popleft()
RECURSIVE DrainHead(_, _)
DrainHead(q, total) ==
    IF q = <<>> THEN <<>>
    ELSE IF Fits(total, Head(q))
         THEN <<Head(q)>> \o DrainHead(Tail(q), total + Size(Head(q)))
         ELSE <<>>

\* Mutant of Remove: the admitted items stay in fifo_q.
RemoveNone(q, taken) == q

\* q after fifo_q.remove(item) for every admitted item.
Remove(q, taken) == SelectSeq(q, LAMBDA x : x \notin Range(taken))

\* Mutant of Drop: the admitted items are read, and left in the queue.
DropNone(q, taken) == q

\* q after len(taken) calls of popleft().
Drop(q, taken) == SubSeq(q, Len(taken) + 1, Len(q))

\* Mutant of NoBatch: an empty batch is posted like any other.
NoBatchNever(b) == FALSE

\* if not batch
NoBatch(b) == b = <<>>

\* Mutant of HeldOver: the fcfs wait sits inside the async with block of the
\* first pass.
HeldOverWait(next) == next = "fcfs_wait"

\* Whether q_lock is held while the dispatcher is suspended at next: the
\* idle sleep, the fcfs wait and the post all stand after the async with
\* blocks.
HeldOver(next) == FALSE

\* Mutant of Selected: every selection, whatever the strategy, writes
\* last_turn, and gives the next fair turn to B.
SelectedSetTurn(b, f, a, bq, turn, next) ==
    /\ ~q_lock
    /\ batch' = b
    /\ total_sequences' = SumSize(b)
    /\ fifo_q' = f
    /\ q_a' = a
    /\ q_b' = bq
    /\ last_turn' = "A"
    /\ items' = Collect(items, Range(f) \cup Range(a) \cup Range(bq) \cup Range(b))
    /\ pc' = IF NoBatch(b) THEN "idle" ELSE next
    /\ q_lock' = HeldOver(pc')
    /\ UNCHANGED strategy
    /\ reply' = NoReply

\* The end of batch selection: the loop's batch = [] let go of the last
\* batch; an empty batch sleeps 5 ms, another is flattened and posted.  The
\* selection ran in one async with q_lock block, the lock free on entry.
Selected(b, f, a, bq, turn, next) ==
    /\ ~q_lock
    /\ batch' = b
    /\ total_sequences' = SumSize(b)
    /\ fifo_q' = f
    /\ q_a' = a
    /\ q_b' = bq
    /\ last_turn' = turn
    /\ items' = Collect(items, Range(f) \cup Range(a) \cup Range(bq) \cup Range(b))
    /\ pc' = IF NoBatch(b) THEN "idle" ELSE next
    /\ q_lock' = HeldOver(pc')
    /\ UNCHANGED strategy
    /\ reply' = NoReply

\* Mutant of AtTop: the loop goes round again while the post is in flight.
AtTopOrCall == pc \in {"top", "call"}

\* The dispatcher is at the top of its loop, the last cycle over: the
\* await of sleep(0), then batch = [] and total_sequences = 0.
AtTop == pc = "top"

SelectSjf ==
    /\ AtTop
    /\ strategy = "sjf"
    /\ LET taken == IF fifo_q # <<>> THEN SjfAdmit(Sorted(fifo_q), 0) ELSE <<>>
       IN Selected(taken, Remove(fifo_q, taken), q_a, q_b, last_turn, "call")

\* Mutant of FairTurn: the turn is not flipped.
FairTurnSame == last_turn

\* The fair branch: the opening item of the turn's class, then the rest of
\* that class, then the other class.
FairTurn == IF last_turn = "B" THEN "A" ELSE "B"

\* Mutant of TurnAfter: last_turn is set to the turn in every cycle.
TurnAlways(opens, turn) == turn

\* Mutant of TurnAfter: last_turn is never set.
TurnNever(opens, turn) == last_turn

\* last_turn after the cycle: the turn when the primary head was admitted as
\* the opening item (the only assignment to last_turn), else what it was.
TurnAfter(opens, turn) == IF opens THEN turn ELSE last_turn

SelectFair ==
    /\ AtTop
    /\ strategy = "fair"
    /\ IF q_a # <<>> \/ q_b # <<>>
       THEN LET turn == FairTurn
                primary == IF turn = "A" THEN q_a ELSE q_b
                secondary == IF turn = "A" THEN q_b ELSE q_a
                opens == primary # <<>> /\ Fits(0, Head(primary))
                first == IF opens THEN <<Head(primary)>> ELSE <<>>
                p1 == Drop(primary, first)
                more == DrainHead(p1, SumSize(first))
                p2 == Drop(p1, more)
                fill == DrainHead(secondary, SumSize(first \o more))
                s2 == Drop(secondary, fill)
            IN Selected(first \o more \o fill, fifo_q,
                        IF turn = "A" THEN p2 ELSE s2,
                        IF turn = "A" THEN s2 ELSE p2,
                        TurnAfter(opens, turn), "call")
       ELSE Selected(<<>>, fifo_q, q_a, q_b, last_turn, "call")

\* Mutant of Waits: a full batch waits too.
WaitsAlways(b) == b # <<>>

\* if batch and total_sequences < MAX_BATCH
Waits(b) == b # <<>> /\ SumSize(b) < MAX_BATCH

\* The fcfs branch, first pass: a batch that is neither empty nor full waits
\* BATCH_TIMEOUT_MS for more.
SelectFcfs ==
    /\ AtTop
    /\ strategy = "fcfs"
    /\ LET taken == DrainHead(fifo_q, 0)
       IN Selected(taken, Drop(fifo_q, taken), q_a, q_b, last_turn,
                   IF Waits(taken) THEN "fcfs_wait" ELSE "call")

\* The fcfs branch, second pass after the wait.
TopUp ==
    /\ pc = "fcfs_wait"
    /\ ~q_lock
    /\ q_lock' = HeldOver("call")
    /\ LET taken == DrainHead(fifo_q, total_sequences)
       IN /\ batch' = batch \o taken
          /\ total_sequences' = total_sequences + SumSize(taken)
          /\ fifo_q' = Drop(fifo_q, taken)
    /\ pc' = "call"
    /\ UNCHANGED <<strategy, q_a, q_b, last_turn, items>>
    /\ reply' = NoReply

\* The 5 ms sleep of an empty cycle is over.
Idle ==
    /\ pc = "idle"
    /\ pc' = "top"
    /\ UNCHANGED <<strategy, fifo_q, q_a, q_b, last_turn, items, batch,
                   total_sequences, q_lock>>
    /\ reply' = NoReply

\* idx_map: for every item of the batch and every position of it, the pair
\* (item, position), positions from 0.
RECURSIVE Flatten(_)
Flatten(b) ==
    IF b = <<>> THEN <<>>
    ELSE [k \in 1 .. Size(Head(b)) |-> <<Head(b), k - 1>>] \o Flatten(Tail(b))

\* Future.set_result / set_exception: InvalidStateError on a done future.
\* st is [items, crashed]: the items, and whether the dispatcher has raised.
FutSet(st, i, kind, value) ==
    IF Done(st.items[i])
    THEN [st EXCEPT !.crashed = TRUE]
    ELSE [st EXCEPT !.items[i].fut = kind, !.items[i].res = value]

\* Mutant of NotDone: the futures are written unguarded.
NotDoneAlways(it) == TRUE

\* The guard of both resolution loops: not itm.fut.done()
NotDone(it) == ~Done(it)

\* Mutant of FailAll: the loop stops after the first item of the batch.
FailFirst(b, st) ==
    IF b = <<>> THEN st
    ELSE IF ~Done(st.items[Head(b)])
         THEN [st EXCEPT !.items[Head(b)].fut = "exception"]
         ELSE st

\* Mutant of FailAll: set_exception without the done() test.
RECURSIVE FailAllUnguarded(_, _)
FailAllUnguarded(b, st) ==
    IF b = <<>> \/ st.crashed THEN st
    ELSE FailAllUnguarded(Tail(b),
            IF Done(st.items[Head(b)])
            THEN [st EXCEPT !.crashed = TRUE]
            ELSE [st EXCEPT !.items[Head(b)].fut = "exception"])

\* except Exception: for itm in batch: if not itm.fut.done(): set_exception
RECURSIVE FailAll(_, _)
FailAll(b, st) ==
    IF b = <<>> \/ st.crashed THEN st
    ELSE FailAll(Tail(b),
                 IF NotDone(st.items[Head(b)])
                 THEN FutSet(st, Head(b), "exception", <<>>)
                 ELSE st)

\* The dispatcher's step from the suspended post on: the loop goes on to its
\* sleep(0), or the task died of an exception nothing catches; the handlers
\* of the futures it resolved answer.
Resume(st) ==
    /\ items' = [i \in Ids |-> Answer(st.items[i])]
    /\ pc' = IF st.crashed THEN "crashed" ELSE "top"
    /\ UNCHANGED <<strategy, fifo_q, q_a, q_b, last_turn, batch,
                   total_sequences, q_lock>>
    /\ reply' = NoReply

\* The post raised, or raise_for_status or the decoding of the body did.
DownstreamFail ==
    /\ pc = "call"
    /\ Resume(FailAll(batch, [items |-> items, crashed |-> FALSE]))

\* None in a results buffer.
None == 0

\* Mutant of Group: the label is looked up by the position in the item, not
\* by the flat index.
RECURSIVE GroupByPos(_, _, _)
GroupByPos(idx_map, labels, n) ==
    IF n = 0 THEN [keys |-> <<>>, results |-> [i \in Ids |-> <<>>]]
    ELSE LET rr == GroupByPos(idx_map, labels, n - 1)
             itm == idx_map[n][1]
             pos == idx_map[n][2]
             known == itm \in Range(rr.keys)
             buf == IF known THEN rr.results[itm]
                    ELSE [k \in 1 .. Size(itm) |-> 0]
         IN [keys |-> IF known THEN rr.keys ELSE Append(rr.keys, itm),
             results |-> [rr.results EXCEPT
                            ![itm] = [buf EXCEPT ![pos + 1] = labels[pos + 1]]]]

\* request_results after the first n pairs of zip(idx_map, labels): the keys
\* in insertion order, and each key's results buffer.
RECURSIVE Group(_, _, _)
Group(idx_map, labels, n) ==
    IF n = 0 THEN [keys |-> <<>>, results |-> [i \in Ids |-> <<>>]]
    ELSE LET rr == Group(idx_map, labels, n - 1)
             itm == idx_map[n][1]
             pos == idx_map[n][2]
             known == itm \in Range(rr.keys)
             buf == IF known THEN rr.results[itm]
                    ELSE [k \in 1 .. Size(itm) |-> None]
         IN [keys |-> IF known THEN rr.keys ELSE Append(rr.keys, itm),
             results |-> [rr.results EXCEPT
                            ![itm] = [buf EXCEPT ![pos + 1] = labels[n]]]]

\* Mutant of AllFilled: the test for None is turned around.
NoneFilled(results) == \A k \in 1 .. Len(results) : results[k] = None

\* all(x is not None for x in results)
AllFilled(results) == \A k \in 1 .. Len(results) : results[k] # None

\* for req_id, req_data in request_results.items(): set_result when every
\* position is filled and the future is not done.
RECURSIVE SetResults(_, _, _)
SetResults(keys, results, st) ==
    IF keys = <<>> \/ st.crashed THEN st
    ELSE SetResults(Tail(keys), results,
                    IF AllFilled(results[Head(keys)]) /\ NotDone(st.items[Head(keys)])
                    THEN FutSet(st, Head(keys), "result", results[Head(keys)])
                    ELSE st)

Min(a, b) == IF a < b THEN a ELSE b

\* The demux of a response that carries the labels.
Demux(labels) ==
    LET idx_map == Flatten(batch)
        rr == Group(idx_map, labels, Min(Len(idx_map), Len(labels)))
    IN SetResults(rr.keys, rr.results, [items |-> items, crashed |-> FALSE])

\* The post returned 2xx with m labels: fewer than were asked for, as many, or
\* one more.
DownstreamReturn ==
    /\ pc = "call"
    /\ \E m \in 0 .. (total_sequences + 1) :
          Resume(Demux([j \in 1 .. m |-> j]))

\* The dispatcher task.
Dispatcher ==
    \/ SelectSjf
    \/ SelectFair
    \/ SelectFcfs
    \/ TopUp
    \/ Idle
    \/ DownstreamFail
    \/ DownstreamReturn

\* A step of the proxy while it serves.
RunNext ==
    \/ Submit
    \/ Cancel
    \/ Switch
    \/ Dispatcher

Next ==
    \/ RunNext
    \/ Stop

\* The proxy from its start, with clients that come and go.
Spec == Init /\ [][Next]_vars

\* The post returned 2xx with one label per sequence.
DownstreamFull ==
    /\ pc = "call"
    /\ Resume(Demux([j \in 1 .. total_sequences |-> j]))

\* The dispatcher in front of a downstream that answers every call in full.
SteadyDispatcher ==
    \/ SelectSjf
    \/ SelectFair
    \/ SelectFcfs
    \/ TopUp
    \/ Idle
    \/ DownstreamFull

\* The proxy in front of such a downstream, with clients that also send what
\* the endpoints turn away.
EdgeNext ==
    \/ SubmitAny
    \/ SwitchAny
    \/ SteadyDispatcher

EdgeSpec == Init /\ [][EdgeNext]_vars

\* The proxy in front of such a downstream under the strategy it started
\* with: no switch, no client that goes away, no shutdown.  The fairness is
\* that of FairSpec, the event loop running the dispatcher task whenever it
\* is ready (its steps here are those of SteadyDispatcher, the only ones
\* SteadyNext allows the task).  Nothing makes a client send a request.
SteadyNext ==
    \/ Submit
    \/ SteadyDispatcher

SteadySpec == Init /\ [][SteadyNext]_vars /\ WF_vars(Dispatcher)

\* The proxy of Spec while it serves (no shutdown), with the scheduling the
\* event loop gives the dispatcher: its sleeps end, and the post returns or
\* raises (the client's timeout is 10 s).  Nothing makes a client send a
\* request or a switch.
FairSpec == Init /\ [][RunNext]_vars /\ WF_vars(Dispatcher)

\* What stands in the queues when up to MaxItems requests of 1 .. MAX_BATCH
\* strings came in under one strategy before the dispatcher's first cycle
\* (the ids in the order of arrival).
QueuedRequests ==
    {[header |-> h, shape |-> "ok", sequences |-> Body(n, StrLen(h))] :
        h \in Headers, n \in 1 .. MAX_BATCH}

InitQueued ==
    \E n \in 0 .. MaxItems : \E reqs \in [1 .. n -> QueuedRequests] :
        LET arrived == [i \in 1 .. n |-> i]
            IsA(i) == Upper(reqs[i].header) = "A"
            IsNotA(i) == ~IsA(i)
        IN /\ strategy \in Strategies
           /\ items = [i \in Ids |->
                         IF i <= n
                         THEN NewItem(Upper(reqs[i].header), reqs[i].sequences)
                         ELSE NoItem]
           /\ fifo_q = IF strategy = "fair" THEN <<>> ELSE arrived
           /\ q_a = IF strategy = "fair" THEN SelectSeq(arrived, IsA) ELSE <<>>
           /\ q_b = IF strategy = "fair" THEN SelectSeq(arrived, IsNotA) ELSE <<>>
           /\ last_turn = "B"
           /\ pc = "top"
           /\ batch = <<>>
           /\ total_sequences = 0
           /\ reply = NoReply
           /\ q_lock = FALSE

\* The dispatcher alone on a loaded proxy: no request and no switch comes in.
QueuedSpec == InitQueued /\ [][Dispatcher]_vars

\* The requests whose clients still wait for the answer.
Open == {i \in Ids : items[i].handler = "awaiting"}

\* A client whose last request was answered posts the next one: what counts
\* against MaxLive is the open requests, not the items the dispatcher still
\* holds.
SubmitNext ==
    /\ Serving
    /\ Cardinality(Open) < MaxLive
    /\ \E r \in Requests : Enqueue(r.header, r.sequences)

\* The proxy started with PROXY_STRATEGY=fair.
InitFair == Init /\ strategy = "fair"

\* The dispatcher under the fair strategy, in front of a downstream that
\* answers every call in full.
FairDispatcher ==
    \/ SelectFair
    \/ Idle
    \/ DownstreamFull

\* The proxy under the fair strategy, never switched, in front of such a
\* downstream, with clients that post again as soon as they are answered.
\* The fairness is that of SteadySpec: the event loop runs the dispatcher
\* task whenever it is ready (its steps here are those of FairDispatcher);
\* nothing makes a client post.
StreamNext ==
    \/ SubmitNext
    \/ FairDispatcher

StreamSpec == InitFair /\ [][StreamNext]_vars /\ WF_vars(Dispatcher)

\* The proxy started with PROXY_STRATEGY=sjf (the default).
InitSjf == Init /\ strategy = "sjf"

\* The dispatcher under the sjf strategy, in front of a downstream that
\* answers every call in full.
SjfDispatcher ==
    \/ SelectSjf
    \/ Idle
    \/ DownstreamFull

\* The proxy under the sjf strategy, never switched, in front of such a
\* downstream, with clients that post again as soon as they are answered.
\* The fairness is that of StreamSpec: the event loop runs the dispatcher
\* task whenever it is ready; nothing makes a client post.
SjfStreamNext ==
    \/ SubmitNext
    \/ SjfDispatcher

SjfStreamSpec == InitSjf /\ [][SjfStreamNext]_vars /\ WF_vars(Dispatcher)

\* ------------------------------------------------------------------ claims
\* The step of the dispatcher that selects a batch: from the top of the loop
\* to the idle sleep, the fcfs wait or the post.
SelectStep == pc = "top" /\ pc' \in {"idle", "fcfs_wait", "call"}

\* The queues the active strategy reads hold an item.
Served ==
    IF strategy = "fair" THEN q_a # <<>> \/ q_b # <<>> ELSE fifo_q # <<>>

\* The place of x in the sequence s (0 when it is not in it).
IndexIn(s, x) ==
    IF x \in Range(s) THEN CHOOSE k \in 1 .. Len(s) : s[k] = x ELSE 0

\* The number of sequences the batch b holds before its item i.
SeqsBefore(b, i) == SumSize(SubSeq(b, 1, IndexIn(b, i) - 1))

\* C1: the items of the dispatcher's batch never hold more than MAX_BATCH
\* sequences together, whatever the strategy, the switches and the top-up
\* (so two items of 3 sequences never share a batch).
C1_BatchWithinCap == SumSize(batch) <= MAX_BATCH

\* A batch of two items that fills the cap exactly is on its way downstream.
C1_Witness == pc = "call" /\ Len(batch) = 2 /\ SumSize(batch) = MAX_BATCH

\* C2: the dispatcher never writes a future that is done.  asyncio answers
\* such a write with InvalidStateError, which nothing in the dispatcher
\* catches: the task would end in "crashed".
C2_ResolvedAtMostOnce == pc # "crashed"

\* A cycle is over whose batch held a future cancelled beforehand, beside an
\* item the dispatcher resolved.
C2_Witness ==
    /\ pc = "top"
    /\ \E i, j \in Range(batch) :
          /\ items[i].fut = "cancelled"
          /\ items[j].fut \in {"result", "exception"}

\* C3: a future resolved with a result holds one label per sequence of its
\* item, entry k being the label at the flat index of the item's k-th
\* sequence (the sequences of the items before it in the batch, plus k).
C3_ResultsAligned ==
    \A i \in Ids :
        items[i].fut = "result" =>
            /\ i \in Range(batch)
            /\ items[i].res = [k \in 1 .. Size(i) |-> SeqsBefore(batch, i) + k]

\* Two items of one batch both got their results.
C3_Witness ==
    /\ pc = "top"
    /\ Len(batch) = 2
    /\ \A i \in Range(batch) : items[i].fut = "result"

\* An item stands in a queue the active strategy does not read.
Stranded(i) ==
    \/ strategy # "fair" /\ i \in Range(q_a) \cup Range(q_b)
    \/ strategy = "fair" /\ i \in Range(fifo_q)

\* C4: an item a switch left in a queue the new strategy does not read is
\* still taken into a batch while that strategy stays.
C4_NoStrandedItems == \A i \in Ids : Stranded(i) ~> ~Stranded(i)

\* C5: when a cycle is over, no item of its batch is left with a pending
\* future, also when the downstream returned fewer labels than sequences.
C5_TruncatedResolved ==
    pc = "top" => \A i \in Range(batch) : items[i].fut # "pending"

\* C6: when the downstream call fails, every item of the batch whose future
\* was pending holds an exception at the end of the step and its handler
\* answers 500; no future of the batch stays pending.
C6_FailureResolvesAll ==
    [][DownstreamFail =>
          \A i \in Range(batch) :
              /\ items'[i].fut # "pending"
              /\ items[i].fut = "pending" =>
                    items'[i].fut = "exception" /\ items'[i].handler = "500"]_vars

\* A batch of two has failed, and a handler answered 500.
C6_Witness ==
    /\ pc = "top"
    /\ Len(batch) = 2
    /\ \E i \in Range(batch) :
          items[i].fut = "exception" /\ items[i].handler = "500"

\* The cycle that just ended failed its batch.
JustFailed ==
    pc = "top" /\ \E i \in Range(batch) : items[i].fut = "exception"

\* C7: a failed downstream call leaves the dispatcher at the top of its
\* loop, and the selection that follows a failed batch still takes what the
\* active strategy's queues hold into a batch that goes downstream.
C7_FailureKeepsDispatcher ==
    [][/\ DownstreamFail => pc' = "top"
       /\ (JustFailed /\ Served /\ SelectStep) =>
              batch' # <<>> /\ pc' \in {"fcfs_wait", "call"}]_vars

\* A batch has failed and the dispatcher is back at the top of its loop, with
\* work in the queues of the active strategy.
C7_Witness == JustFailed /\ Served

\* C8: what an fcfs pass admits is the head of fifo_q, in queue order: the
\* first pass makes the batch of a prefix of the queue, the top-up appends
\* the next prefix.
C8_FcfsKeepsOrder ==
    [][/\ (SelectStep /\ strategy = "fcfs") => batch' \o fifo_q' = fifo_q
       /\ (pc = "fcfs_wait" /\ pc' = "call") =>
              batch' \o fifo_q' = batch \o fifo_q]_vars

\* The dispatcher is in its fcfs wait and an item that fits has come in: the
\* top-up will admit it behind the items of the first pass.
C8_Witness ==
    /\ pc = "fcfs_wait"
    /\ fifo_q # <<>>
    /\ total_sequences + Size(Head(fifo_q)) <= MAX_BATCH

\* The class the fair strategy files an item under.
ClassOf(it) == IF it.cid = "A" THEN "A" ELSE "B"

\* C9: a fair selection that finds both q_a and q_b non-empty opens its batch
\* with the head of the class that did not open the last fair batch, and
\* last_turn, which only such an opening changes, names the class that
\* opened.
C9_FairAlternates ==
    [][/\ (SelectStep /\ strategy = "fair" /\ q_a # <<>> /\ q_b # <<>>) =>
              /\ batch' # <<>>
              /\ batch'[1] = Head(IF last_turn = "B" THEN q_a ELSE q_b)
              /\ last_turn' = ClassOf(items'[batch'[1]])
              /\ last_turn' # last_turn
       /\ ~(SelectStep /\ strategy = "fair") => last_turn' = last_turn]_vars

\* The second fair batch in a row is on its way: B opened it, after A had
\* opened the one before, and q_a was not empty at its selection.
C9_Witness ==
    /\ pc = "call"
    /\ strategy = "fair"
    /\ last_turn = "B"
    /\ ClassOf(items[batch[1]]) = "B"
    /\ q_a # <<>>

\* a stands before b in the order sjf serves: the smaller maxlen first, the
\* earlier place in the queue q among equals.
SjfBefore(q, a, b) ==
    \/ items[a].maxlen < items[b].maxlen
    \/ items[a].maxlen = items[b].maxlen /\ IndexIn(q, a) < IndexIn(q, b)

\* C10: an sjf selection on a non-empty fifo_q opens its batch with the item
\* of the smallest maxlen, the earliest enqueued among equals, and lists the
\* batch in ascending maxlen, the order of the queue breaking ties.
C10_SjfOrder ==
    [][(SelectStep /\ strategy = "sjf" /\ fifo_q # <<>>) =>
          /\ batch' # <<>>
          /\ \A j \in Range(fifo_q) \ {batch'[1]} :
                SjfBefore(fifo_q, batch'[1], j)
          /\ \A k, l \in 1 .. Len(batch') :
                k < l => SjfBefore(fifo_q, batch'[k], batch'[l])]_vars

\* An sjf batch of three: the item that came first goes last, behind two
\* items of equal maxlen.
C10_Witness ==
    /\ pc = "call"
    /\ strategy = "sjf"
    /\ Len(batch) = 3
    /\ batch[3] < batch[1]
    /\ batch[1] < batch[2]
    /\ items[batch[1]].maxlen = items[batch[2]].maxlen

\* C11: an sjf selection skips an item that does not fit and goes on down the
\* sorted order, so that it leaves in fifo_q no item that still fits the
\* room the batch has left.
C11_SjfBestFit ==
    [][(SelectStep /\ strategy = "sjf") =>
          \A j \in Range(fifo_q') : ~Fits(SumSize(batch'), j)]_vars

\* The items enqueued in the order A, A, B, the classes of the headers "A"
\* and "b", stand in the fair queues and no batch has been built.
QueuedAAB ==
    /\ strategy = "fair"
    /\ pc = "top"
    /\ batch = <<>>
    /\ last_turn = "B"
    /\ q_a = <<1, 2>>
    /\ q_b = <<3>>
    /\ items[1].cid = "A"
    /\ items[2].cid = "A"
    /\ items[3].cid = "B"

\* C12: the first batch the dispatcher builds from the queues A, A, B holds
\* the B item, whatever the three sequence counts in 1 .. MAX_BATCH.
C12_FirstBatchHoldsB ==
    [][(QueuedAAB /\ SelectStep) => 3 \in Range(batch')]_vars

\* The sequences the A items of the queues A, A, B bring into the first
\* batch: those of both when they fit together, else those of the first.
RunOfA ==
    LET a1 == Len(items[1].seqs)
        a2 == Len(items[2].seqs)
    IN IF a1 + a2 <= MAX_BATCH THEN a1 + a2 ELSE a1

\* C12, amended: the first batch built from the queues A, A, B opens with
\* the first A item, and holds the B item exactly when the B item's
\* sequences fit the room the admitted A items leave.
C12_FirstBatchHoldsBIfRoom ==
    [][(QueuedAAB /\ SelectStep) =>
          /\ batch'[1] = 1
          /\ 3 \in Range(batch') <=>
                RunOfA + Len(items[3].seqs) <= MAX_BATCH]_vars

\* The first batch of A, A, B is on its way with the first A item and the B
\* item: the second A item did not fit.
C12_Witness ==
    /\ pc = "call"
    /\ strategy = "fair"
    /\ batch = <<1, 3>>
    /\ q_a = <<2>>
    /\ items[1].cid = "A"
    /\ items[2].cid = "A"
    /\ items[3].cid = "B"

\* C13: a switch to X leaves X in the register (which the response reports)
\* and touches nothing else, so that a second switch to X changes nothing;
\* no other step writes the register, and what reads it sees X: an enqueue
\* files its item in the queues of the active strategy, a dispatcher cycle
\* takes its batch from them.
C13_SwitchSetsStrategy ==
    [][/\ \A v \in Strategies :
             Change(v) => strategy' = v /\ (strategy = v => UNCHANGED vars)
       /\ strategy' # strategy =>
             UNCHANGED <<fifo_q, q_a, q_b, last_turn, items, pc, batch,
                         total_sequences>>
       /\ Len(fifo_q') > Len(fifo_q) => strategy # "fair"
       /\ (Len(q_a') > Len(q_a) \/ Len(q_b') > Len(q_b)) => strategy = "fair"
       /\ SelectStep =>
             IF strategy = "fair" THEN fifo_q' = fifo_q
             ELSE q_a' = q_a /\ q_b' = q_b]_vars

\* A request came in before a switch to fair and another after it: the
\* first stands in fifo_q, the second in q_a.
C13_Witness == strategy = "fair" /\ fifo_q # <<>> /\ q_a # <<>>

\* C14: the register holds one of sjf, fair, fcfs before and after every
\* step, and a step that answers a switch request with 422 leaves the
\* register, the three queues and last_turn as they were.
C14_InvalidSwitchRejected ==
    [][/\ strategy \in Strategies
       /\ strategy' \in Strategies
       /\ reply' = [path |-> "/strategy", status |-> "422"] =>
             UNCHANGED <<strategy, fifo_q, q_a, q_b, last_turn>>]_vars

\* A switch request has just been turned away with 422 while fair was
\* active and an item stood in a queue.
C14_Witness ==
    /\ reply = [path |-> "/strategy", status |-> "422"]
    /\ strategy = "fair"
    /\ q_b # <<>>

\* C15: a step that answers a request to /proxy_classify with 400 or 422
\* makes no item and leaves the queues as they were, a step that makes an
\* item answers with no error, and every item that stands in a queue or in
\* the batch has between 1 and MAX_BATCH sequences.
C15_InvalidRequestRejected ==
    [][/\ reply'.path = "/proxy_classify" =>
             /\ reply'.status \in {"400", "422"}
             /\ UNCHANGED <<fifo_q, q_a, q_b, items, batch>>
       /\ (\E i \in Ids : items[i] = NoItem /\ items'[i] # NoItem) =>
             reply' = NoReply
       /\ \A i \in Range(fifo_q') \cup Range(q_a') \cup Range(q_b')
                   \cup Range(batch') :
             1 <= Len(items'[i].seqs) /\ Len(items'[i].seqs) <= MAX_BATCH]_vars

\* A request has just been turned away with 400 while another waits in a
\* queue.
C15_Witness ==
    /\ reply = [path |-> "/proxy_classify", status |-> "400"]
    /\ fifo_q # <<>>

\* C16: q_b holds only items whose customer id is B; an item of any other
\* customer id that is filed under fair stands in q_a.
C16_OthersToClassA == \A i \in Range(q_b) : items[i].cid = "B"

\* No handler waits and none has answered anything but 200.
AllServed == \A i \in Ids : items[i].handler \in {"none", "200"}

\* The step lets a request in: it makes an item.
Admits == \E i \in Ids : items[i] = NoItem /\ items'[i] # NoItem

\* C17: under a strategy that is not changed and a downstream that answers
\* every call in full, either requests keep coming in for ever, or from some
\* point on every request has been answered 200 and none waits.
C17_AllAnswered == []<><<Admits>>_vars \/ <>[]AllServed

\* Two requests, one of each customer class, were answered 200 out of one
\* batch.
C17_Witness ==
    /\ pc = "top"
    /\ \E i, j \in Range(batch) :
          /\ items[i].cid = "A" /\ items[i].handler = "200"
          /\ items[j].cid = "B" /\ items[j].handler = "200"

\* C18: once the dispatcher has been stopped, no item that stands in a queue
\* is left with a pending future and a handler that waits for it.
C18_ShutdownResolvesQueued ==
    pc = "stopped" =>
        \A i \in Range(fifo_q) \cup Range(q_a) \cup Range(q_b) :
            items[i].fut # "pending" /\ items[i].handler # "awaiting"

\* The batch that is downstream holds an item whose waiter was cancelled.
CancelledInBatch ==
    pc = "call" /\ \E i \in Range(batch) : items[i].fut = "cancelled"

\* C19: when the post of a batch that holds a cancelled item returns or
\* raises, the dispatcher goes back to the top of its loop, the cancelled
\* item is left as it was, and every pending item of the batch gets the
\* exception when the call failed, its own labels when the downstream
\* answered in full.
C19_CancelledSkipped ==
    [][(CancelledInBatch /\ pc' \notin {"call", "stopped"}) =>
          /\ pc' = "top"
          /\ \A i \in Range(batch) :
                items[i].fut = "cancelled" => items'[i] = items[i]
          /\ DownstreamFail =>
                \A i \in Range(batch) :
                    items[i].fut = "pending" =>
                        items'[i].fut = "exception" /\ items'[i].handler = "500"
          /\ DownstreamFull =>
                \A i \in Range(batch) :
                    items[i].fut = "pending" =>
                        /\ items'[i].fut = "result"
                        /\ Len(items'[i].res) = Len(items[i].seqs)
                        /\ items'[i].handler = "200"]_vars

\* A cycle is over whose batch held a cancelled item in front of an item
\* that got its results and answered 200.
C19_Witness ==
    /\ pc = "top"
    /\ Len(batch) = 2
    /\ items[batch[1]].fut = "cancelled"
    /\ items[batch[2]].fut = "result"
    /\ items[batch[2]].handler = "200"

\* C20: when a fair selection admits an item, every item of its class that
\* was enqueued before it and still waited is admitted with it, and stands
\* before it in the batch.  (The items of QueuedSpec carry their order of
\* arrival as their ids.)
C20_FairKeepsClassOrder ==
    [][(SelectStep /\ strategy = "fair") =>
          \A q \in {q_a, q_b} : \A i, j \in Range(q) :
              (i < j /\ j \in Range(batch')) =>
                  /\ i \in Range(batch')
                  /\ IndexIn(batch', i) < IndexIn(batch', j)]_vars

\* A fair batch of the first two items of class A is on its way, and the
\* third, which did not fit, waits at the head of q_a.
C20_Witness ==
    /\ pc = "call"
    /\ strategy = "fair"
    /\ batch = <<1, 2>>
    /\ q_a = <<3>>

\* How often the id i stands in the sequence s.
Occurs(s, i) == Cardinality({k \in 1 .. Len(s) : s[k] = i})

\* C21: every item stands at most once in fifo_q, q_a, q_b and the
\* dispatcher's batch taken together: never in two queues, never twice in
\* one, never in a queue and in the batch.
C21_OnePlace ==
    \A i \in Ids :
        Occurs(fifo_q, i) + Occurs(q_a, i) + Occurs(q_b, i) + Occurs(batch, i)
            <= 1

\* A fair batch is on its way that took one item out of q_b, and left behind
\* it an item in q_b or in q_a.
C21_Witness ==
    /\ pc = "call"
    /\ strategy = "fair"
    /\ Len(batch) = 1
    /\ ClassOf(items[batch[1]]) = "B"
    /\ q_a \o q_b # <<>>

\* The ids that wait in a queue.
QueuedIds == Range(fifo_q) \cup Range(q_a) \cup Range(q_b)

\* The future holds what the dispatcher wrote: a result or an exception.
Written(it) == it.fut \in {"result", "exception"}

\* C22: an item only moves forward.  An id enters a queue only as a new
\* item.  The batch changes only in a selection pass of the dispatcher, and
\* what it then holds is in no queue: the first pass of a cycle makes it of
\* items that waited in a queue, none of them of the batch before; the pass
\* after the fcfs wait appends such items to it.  A future gets a result or an
\* exception only when it is pending, in the batch, and the dispatcher comes
\* back from the post; and what was written stays until the item is gone.
C22_OneWay ==
    [][/\ <<fifo_q, q_a, q_b>>' # <<fifo_q, q_a, q_b>> =>
             \A i \in QueuedIds' \ QueuedIds : items[i] = NoItem
       /\ (batch' # batch \/ SelectStep) =>
             /\ pc \in {"top", "fcfs_wait"}
             /\ pc' \in {"idle", "fcfs_wait", "call"}
             /\ Range(batch') \cap QueuedIds' = {}
             /\ IF pc = "top"
                THEN /\ Range(batch') \subseteq QueuedIds
                     /\ Range(batch') \cap Range(batch) = {}
                ELSE /\ SubSeq(batch', 1, Len(batch)) = batch
                     /\ Range(batch') \ Range(batch) \subseteq QueuedIds
       /\ items' # items =>
             \A i \in Ids :
                \/ items'[i] = items[i]
                \/ /\ Written(items'[i]) =>
                         /\ items[i].fut = "pending"
                         /\ i \in Range(batch)
                         /\ pc = "call"
                         /\ pc' \in {"top", "crashed"}
                   /\ Written(items[i]) =>
                         \/ items'[i] = NoItem
                         \/ /\ items'[i].fut = items[i].fut
                            /\ items'[i].res = items[i].res]_vars

\* A cycle is over that failed its batch of two, and none of the two is back
\* in a queue: the queues are empty.
C22_Witness ==
    /\ pc = "top"
    /\ Len(batch) = 2
    /\ \A i \in Range(batch) : items[i].fut = "exception"
    /\ QueuedIds = {}

\* The dispatcher is suspended in the idle sleep, the fcfs wait or the post.
Waiting == pc \in {"idle", "fcfs_wait", "call"}

C24_OneCallAtATime ==
    [][/\ pc = "call" =>
             /\ batch' = batch
             /\ total_sequences' = total_sequences
             /\ QueuedIds \subseteq QueuedIds'
             /\ pc' \in {"call", "top", "crashed", "stopped"}
       /\ (pc # "call" /\ pc' = "call") =>
             /\ pc \in {"top", "fcfs_wait"}
             /\ batch' # <<>>]_vars

\* A post of an sjf batch is in flight while an item waits in fifo_q that
\* the batch has room for: it came in after the selection, and is left for
\* the next cycle.
C24_Witness ==
    /\ pc = "call"
    /\ strategy = "sjf"
    /\ fifo_q # <<>>
    /\ Fits(total_sequences, Head(fifo_q))

\* C25: a post carries the sequences of one non-empty batch, between 1 and
\* MAX_BATCH of them, as many as total_sequences counts; a selection that
\* admitted nothing goes to the idle sleep, and from there to the top of the
\* loop without a post; and a cycle has one post: from the post the
\* dispatcher goes to the top of the loop, or ends.
C25_OneCallPerCycle ==
    [][/\ pc' = "call" =>
             /\ batch' # <<>>
             /\ Len(Flatten(batch')) = total_sequences'
             /\ 1 <= Len(Flatten(batch'))
             /\ Len(Flatten(batch')) <= MAX_BATCH
       /\ (SelectStep /\ batch' = <<>>) => pc' = "idle"
       /\ pc = "idle" => pc' \in {"idle", "top", "stopped"}
       /\ pc = "call" => pc' \in {"call", "top", "crashed", "stopped"}]_vars

\* The dispatcher sleeps after an sjf selection that found nothing, while a
\* request that came in since waits in fifo_q: no post goes out for it
\* before the next cycle.
C25_Witness ==
    /\ pc = "idle"
    /\ strategy = "sjf"
    /\ batch = <<>>
    /\ fifo_q # <<>>

\* C26: a step that changes the strategy register changes nothing else: the
\* queues, last_turn, the items and their futures, and the dispatcher's
\* place and batch are as before; and an item that comes in is filed by the
\* register as the last switch left it: in fifo_q under sjf and fcfs, in q_a
\* or q_b under fair.
C26_SwitchOnlySetsRegister ==
    [][/\ strategy' # strategy =>
             UNCHANGED <<fifo_q, q_a, q_b, last_turn, items, pc, batch,
                         total_sequences, q_lock>>
       /\ \A i \in Ids : (items[i] = NoItem /\ items'[i] # NoItem) =>
             /\ strategy' = strategy
             /\ IF strategy = "fair"
                THEN i \in Range(q_a') \cup Range(q_b')
                ELSE i \in Range(fifo_q')]_vars

\* The register was switched from fair to sjf after a batch that A opened:
\* last_turn still names A, and an item still waits in q_b.
C26_Witness ==
    /\ strategy = "sjf"
    /\ last_turn = "A"
    /\ q_b # <<>>

\* C27: the step that makes an item appends its id at the tail of one queue,
\* chosen by the strategy register as the step finds it: fifo_q under sjf and
\* fcfs, under fair q_a or q_b by the item's class.  The two other queues,
\* and what stood in the chosen queue, are as before.
C27_EnqueueAtOneTail ==
    [][\A i \in Ids : (items[i] = NoItem /\ items'[i] # NoItem) =>
          IF strategy # "fair"
          THEN fifo_q' = Append(fifo_q, i) /\ UNCHANGED <<q_a, q_b>>
          ELSE IF ClassOf(items'[i]) = "A"
               THEN q_a' = Append(q_a, i) /\ UNCHANGED <<q_b, fifo_q>>
               ELSE q_b' = Append(q_b, i) /\ UNCHANGED <<q_a, fifo_q>>]_vars

\* A second request was enqueued in fifo_q behind one that waits there.
C27_Witness ==
    /\ strategy = "fcfs"
    /\ Len(fifo_q) = 2
    /\ q_a = <<>>
    /\ q_b = <<>>

\* C28: the dispatcher enters the fcfs wait only from an fcfs first pass that
\* admitted something and left room; a first pass that admitted nothing goes
\* to the idle sleep and one that filled the batch goes to the post, neither
\* through the wait; the wait is followed by the post, never by a second
\* wait; and the pass after the wait admits the head of fifo_q when it fits,
\* whenever it came in.
C28_FcfsWaitsOnce ==
    [][/\ (pc # "fcfs_wait" /\ pc' = "fcfs_wait") =>
             /\ SelectStep
             /\ strategy = "fcfs"
             /\ batch' # <<>>
             /\ SumSize(batch') < MAX_BATCH
       /\ (SelectStep /\ strategy = "fcfs" /\ batch' = <<>>) => pc' = "idle"
       /\ (SelectStep /\ strategy = "fcfs" /\ SumSize(batch') = MAX_BATCH) =>
             pc' = "call"
       /\ pc = "fcfs_wait" => pc' \in {"fcfs_wait", "call", "stopped"}
       /\ (pc = "fcfs_wait" /\ pc' = "call" /\ fifo_q # <<>>
              /\ Fits(total_sequences, Head(fifo_q))) =>
             /\ Head(fifo_q) \in Range(batch')
             /\ Head(fifo_q) \notin Range(fifo_q')]_vars

\* The dispatcher waits with three sequences in its batch, and a request of
\* two has come in since: the second pass will fill the batch with it.
C28_Witness ==
    /\ pc = "fcfs_wait"
    /\ total_sequences = 3
    /\ fifo_q # <<>>
    /\ Size(Head(fifo_q)) = 2

\* C29: last_turn is A or B, and only a fair selection changes it.  The turn
\* of a fair selection is the class last_turn does not name.  When the
\* turn's queue holds an item, its head opens the batch and last_turn
\* becomes the turn; when it is empty, last_turn stays, so that the same
\* class has the turn in the next fair cycle, and the batch is made of the
\* other queue's items alone.
C29_TurnSetOnOpening ==
    [][/\ last_turn \in {"A", "B"}
       /\ last_turn' \in {"A", "B"}
       /\ ~(SelectStep /\ strategy = "fair") => last_turn' = last_turn
       /\ (SelectStep /\ strategy = "fair") =>
             LET turn == IF last_turn = "B" THEN "A" ELSE "B"
                 primary == IF turn = "A" THEN q_a ELSE q_b
                 secondary == IF turn = "A" THEN q_b ELSE q_a
             IN IF primary # <<>>
                THEN /\ batch' # <<>>
                     /\ batch'[1] = Head(primary)
                     /\ last_turn' = turn
                ELSE /\ last_turn' = last_turn
                     /\ Range(batch') \subseteq Range(secondary)
                     /\ batch' = <<>> <=> secondary = <<>>]_vars

\* Three requests of the other customers came in and none of A: the first
\* fair batch, on A's turn, is opened by the head of q_b, and last_turn
\* still reads B.
C29_Witness ==
    /\ pc = "call"
    /\ strategy = "fair"
    /\ last_turn = "B"
    /\ batch # <<>>
    /\ batch[1] = 1
    /\ \A i \in Ids : i \in QueuedIds \cup Range(batch) /\ ClassOf(items[i]) = "B"

\* C30: under the fair strategy, kept for the whole run, and a downstream
\* that answers every call, every item that waits in q_a or q_b is taken into
\* a batch, however many requests of either class keep coming in.
C30_FairAdmitsEveryItem ==
    \A i \in Ids :
        (strategy = "fair" /\ i \in Range(q_a) \cup Range(q_b))
            ~> (i \in Range(batch))

\* A fair batch that A opened is on its way, and the head of q_b, which it
\* had no room for, waits for the next.
C30_Witness ==
    /\ pc = "call"
    /\ strategy = "fair"
    /\ last_turn = "A"
    /\ q_b # <<>>
    /\ ~Fits(total_sequences, Head(q_b))

\* C31: under the sjf strategy, kept for the whole run, and a downstream that
\* answers every call, every item that waits in fifo_q is taken into a
\* batch, whatever requests keep coming in.
C31_SjfAdmitsEveryItem ==
    \A i \in Ids :
        (strategy = "sjf" /\ i \in Range(fifo_q)) ~> (i \in Range(batch))

\* C32: a selection that finds an item in the queues the active strategy
\* reads (fifo_q under sjf and fcfs, q_a and q_b under fair) makes a batch
\* that is not empty, and does not go to the idle sleep.
C32_WorkIsTaken ==
    [][(SelectStep /\ Served) => (batch' # <<>> /\ pc' # "idle")]_vars

\* An fcfs batch of one item is on its way, made while a second item stood
\* behind it that it had no room for: that item is the head the next
\* selection finds.
C32_Witness ==
    /\ pc = "call"
    /\ strategy = "fcfs"
    /\ Len(batch) = 1
    /\ fifo_q # <<>>
    /\ ~Fits(total_sequences, Head(fifo_q))

\* The queue q without the items of the batch b, the others in their order.
Kept(q, b) == SelectSeq(q, LAMBDA x : x \notin Range(b))

\* C33: a selection under sjf or fcfs, and the fcfs pass after the wait,
\* leave q_a, q_b and last_turn as they were; a selection under fair leaves
\* fifo_q as it was; and each queue the selection reads is afterwards what it
\* was without the items of the batch, the others in their order.
C33_SelectionFrame ==
    [][/\ (SelectStep /\ strategy # "fair") =>
             /\ UNCHANGED <<q_a, q_b, last_turn>>
             /\ fifo_q' = Kept(fifo_q, batch')
       /\ (pc = "fcfs_wait" /\ pc' = "call") =>
             /\ UNCHANGED <<q_a, q_b, last_turn>>
             /\ fifo_q' = Kept(fifo_q, batch')
       /\ (SelectStep /\ strategy = "fair") =>
             /\ fifo_q' = fifo_q
             /\ q_a' = Kept(q_a, batch')
             /\ q_b' = Kept(q_b, batch')]_vars

\* An sjf batch is on its way after a fair batch that A opened: last_turn
\* still names A, and the item a switch left in q_b is still there.
C33_Witness ==
    /\ pc = "call"
    /\ strategy = "sjf"
    /\ batch # <<>>
    /\ last_turn = "A"
    /\ q_b # <<>>

====
